---------------------------- MODULE Spec2Model ----------------------------
(***************************************************************************)
(* A model of the scene manager (SceneManager.cpp) and the view manager    *)
(* (ViewManager.cpp): the texture registry and the OpenGL texture state it *)
(* drives, the material registry, the shader uniform setters, the scene    *)
(* preparation and rendering sequences, and the camera input callbacks.    *)
(*                                                                         *)
(* Numbers: the float values of the scene (colours, scales, positions,     *)
(* matrix entries) are fixed-point integers in thousandths, a product      *)
(* being rescaled after each multiplication; cursor positions are whole    *)
(* pixels and rotation angles whole degrees.                               *)
(***************************************************************************)
EXTENDS Integers, Sequences, FiniteSets, TLC

VARIABLES
    \* ---- SceneManager: texture registry (m_textureIDs, m_loadedTextures)
    m_textureIDs,       \* array [0..TextureCapacity-1] of [ID, tag]
    m_loadedTextures,   \* number of registered textures
    \* ---- OpenGL texture state driven by the registry
    glNextName,         \* the next unused texture name glGenTextures returns
    glActiveUnit,       \* the active texture unit (glActiveTexture)
    glBoundTex,         \* unit -> texture bound to GL_TEXTURE_2D (0: none)
    \* ---- results of the last registry calls
    lastCreate,         \* the last CreateGLTexture call and what it returned
    lastFind,           \* the last FindTextureSlot / FindTextureID query
    \* ---- ViewManager: the file's globals and the camera
    gLastX,             \* float gLastX
    gLastY,             \* float gLastY
    gFirstMouse,        \* bool gFirstMouse
    MovementSpeed,      \* g_pCamera->MovementSpeed
    mouseFed,           \* the last offsets passed to Camera::ProcessMouseMovement
    mouseTrace,         \* the cursor positions reported so far, oldest first
    scrollRun,          \* scroll events so far if all were negative, else -1
    \* ---- ViewManager: frame timing, projection flag, camera position
    bOrthographicProjection, \* bool bOrthographicProjection
    gDeltaTime,         \* float gDeltaTime, in thousandths of a second
    gLastFrame,         \* float gLastFrame, in thousandths of a second
    Position,           \* g_pCamera->Position
    vm_pShaderManager,  \* ViewManager::m_pShaderManager: NULL or the shader manager
    viewPushed,         \* the view, projection and viewPosition last pushed
    frameLog,           \* the PrepareSceneView calls so far, oldest first
    \* ---- SceneManager: material registry and shader state binder
    m_objectMaterials,  \* std::vector<OBJECT_MATERIAL>
    m_pShaderManager,   \* NULL or the shader manager
    uniforms,           \* uniform name -> the tuple last pushed (Unset: none)
    lastMaterial,       \* the last FindMaterial call and what it returned
    lastShading,        \* which of SetShaderColor / SetShaderTexture ran last
    lastXform,          \* the arguments of the last SetTransformations call
    nullDerefs,         \* the methods that called through a null m_pShaderManager
    crashed,            \* the process died on such a call
    \* ---- SceneManager: PrepareScene and RenderScene in progress
    pc,                 \* "start", "PrepareScene", "ready" or "RenderScene"
    ip,                 \* the index of the next call of the running method
    frames,             \* RenderScene calls completed
    meshLoads,          \* mesh type -> Load...Mesh requests made
    drawn               \* the meshes drawn so far by the running RenderScene

texVars == <<m_textureIDs, m_loadedTextures, glNextName, glActiveUnit,
             glBoundTex, lastCreate, lastFind>>

frameVars == <<bOrthographicProjection, gDeltaTime, gLastFrame, Position,
               vm_pShaderManager, viewPushed, frameLog>>

viewVars == <<gLastX, gLastY, gFirstMouse, MovementSpeed, mouseFed, mouseTrace,
              scrollRun, frameVars>>

shaderVars == <<m_objectMaterials, m_pShaderManager, uniforms, lastMaterial,
                lastShading, lastXform, nullDerefs, crashed>>

sceneVars == <<pc, ip, frames, meshLoads, drawn>>

vars == <<texVars, viewVars, shaderVars, sceneVars>>

-----------------------------------------------------------------------------
(* Program constants and bounds *)

\* "There are up to 16 slots" (BindGLTextures): the size of m_textureIDs.
TextureCapacity == 16

\* Bound: texture names glGenTextures may hand out in a checked run.
MaxTextureNames == 4

\* ViewManager.cpp: the window size and the camera's initial speed.
WINDOW_WIDTH == 1000
WINDOW_HEIGHT == 800
InitialMovementSpeed == 5

\* The largest magnitude up to which every integer is a float (24-bit
\* significand): the range in which storing a double in a float is exact.
FloatExactRange == 16777216

\* Bound: the movement speed up to which a scroll up is taken.
MaxSpeed == 9
\* Bound: the length of the negative-scroll run that is counted.
ScrollRunLength == 100
\* Bound: the number of cursor-position events in a checked run.
MaxMouseEvents == 3

\* Bound: texture names glGenTextures may hand out in a run that fills the
\* registry.
MaxCapacityNames == 18

\* Bound: how many times DefineObjectMaterials is run in a checked run.
MaxMaterialRuns == 1

\* Bound: RenderScene calls in a checked run.
MaxFrames == 2
\* Bound: texture files of the scene that fail to load in a checked run.
MaxLoadFailures == 1

\* One, in thousandths.
One == 1000

NULL == "NULL"
Unset == <<>>
ShaderManager == "ShaderManager"
NotFound == -1

\* Tags given to CreateGLTexture, and tags looked up ("plate" is looked up by
\* RenderScene but is never a texture tag).
LoadTags == {"counter_texture", "can_texture"}
QueryTags == LoadTags \cup {"plate"}

\* What stbi_load yields for a file: 0 stands for a NULL image (the file could
\* not be decoded), 1..4 for the decoded image's channel count.
DecodeResults == 0..4

Units == 0..(TextureCapacity - 1)

EmptyEntry == [ID |-> 0, tag |-> ""]
NoCreate == [called |-> FALSE, channels |-> 0, tag |-> "", ret |-> FALSE,
             ID |-> 0, slot |-> NotFound]
NoFind == [called |-> FALSE, tag |-> "", slot |-> NotFound, ID |-> NotFound]

-----------------------------------------------------------------------------
(* Texture registry *)

TexInit ==
    /\ m_textureIDs = [i \in Units |-> EmptyEntry]
    /\ m_loadedTextures = 0
    /\ glNextName = 1
    /\ glActiveUnit = 0
    /\ glBoundTex = [u \in Units |-> 0]
    /\ lastCreate = NoCreate
    /\ lastFind = NoFind

\* The registration at the end of CreateGLTexture. The array has
\* TextureCapacity elements and the code has no guard: a write at index
\* TextureCapacity is out of bounds, and then the registry count is left
\* with an arbitrary value.
RegisterTexture(textureID, tag) ==
    IF m_loadedTextures < TextureCapacity
    THEN /\ m_textureIDs' = [m_textureIDs EXCEPT
                                ![m_loadedTextures] = [ID |-> textureID, tag |-> tag]]
         /\ m_loadedTextures' = m_loadedTextures + 1
    ELSE /\ m_textureIDs' = m_textureIDs
         /\ m_loadedTextures' \in 0..TextureCapacity

\* The channel counts CreateGLTexture uploads (GL_RGB8 for 3, GL_RGBA8 for 4).
ChannelsSupported_Greyscale(channels) == channels \in {1, 3, 4}

ChannelsSupported(channels) == channels \in {3, 4}

\* CreateGLTexture(filename, tag); channels is what stbi_load decodes
\* filename to.
CreateGLTexture(channels, tag) ==
    /\ IF channels = 0
       THEN \* image == NULL: "Could not load image", return false
            /\ lastCreate' = [called |-> TRUE, channels |-> channels, tag |-> tag,
                              ret |-> FALSE, ID |-> 0, slot |-> NotFound]
            /\ UNCHANGED <<m_textureIDs, m_loadedTextures, glNextName,
                           glActiveUnit, glBoundTex>>
       ELSE \* glGenTextures(1, &textureID); glBindTexture(GL_TEXTURE_2D, textureID)
            LET textureID == glNextName IN
            /\ glNextName' = glNextName + 1
            /\ UNCHANGED glActiveUnit
            /\ IF ~ChannelsSupported(channels)
               THEN \* "Not implemented to handle image": return false with
                    \* the new texture still bound to the active unit
                    /\ glBoundTex' = [glBoundTex EXCEPT ![glActiveUnit] = textureID]
                    /\ lastCreate' = [called |-> TRUE, channels |-> channels,
                                      tag |-> tag, ret |-> FALSE,
                                      ID |-> textureID, slot |-> NotFound]
                    /\ UNCHANGED <<m_textureIDs, m_loadedTextures>>
               ELSE \* glBindTexture(GL_TEXTURE_2D, 0), then register
                    /\ glBoundTex' = [glBoundTex EXCEPT ![glActiveUnit] = 0]
                    /\ RegisterTexture(textureID, tag)
                    /\ lastCreate' = [called |-> TRUE, channels |-> channels,
                                      tag |-> tag, ret |-> TRUE,
                                      ID |-> textureID, slot |-> m_loadedTextures]
    /\ UNCHANGED lastFind

\* BindGLTextures: the loop body run for i .. m_loadedTextures - 1, on the
\* unit/binding state (active, bound): glActiveTexture(GL_TEXTURE0 + i), then
\* glBindTexture(GL_TEXTURE_2D, m_textureIDs[i].ID).
RECURSIVE BindLoop_NoActiveTexture(_, _, _)
BindLoop_NoActiveTexture(i, active, bound) ==
    IF i < m_loadedTextures
    THEN BindLoop_NoActiveTexture(i + 1, active,
                                  [bound EXCEPT ![active] = m_textureIDs[i].ID])
    ELSE [active |-> active, bound |-> bound]

RECURSIVE BindLoop(_, _, _)
BindLoop(i, active, bound) ==
    IF i < m_loadedTextures
    THEN BindLoop(i + 1, i, [bound EXCEPT ![i] = m_textureIDs[i].ID])
    ELSE [active |-> active, bound |-> bound]

BindGLTextures_Skipped == UNCHANGED texVars

BindGLTextures ==
    LET r == BindLoop(0, glActiveUnit, glBoundTex) IN
    /\ glActiveUnit' = r.active
    /\ glBoundTex' = r.bound
    /\ UNCHANGED <<m_textureIDs, m_loadedTextures, glNextName, lastCreate, lastFind>>

\* DestroyGLTextures: the loop body run for i .. m_loadedTextures - 1, on the
\* registry and the next unused texture name: glGenTextures(1,
\* &m_textureIDs[i].ID) stores a newly generated name over the entry's handle.
RECURSIVE DestroyLoop(_, _, _)
DestroyLoop(i, ids, next) ==
    IF i < m_loadedTextures
    THEN DestroyLoop(i + 1, [ids EXCEPT ![i].ID = next], next + 1)
    ELSE [ids |-> ids, next |-> next]

DestroyGLTextures ==
    LET r == DestroyLoop(0, m_textureIDs, glNextName) IN
    /\ m_textureIDs' = r.ids
    /\ glNextName' = r.next
    /\ UNCHANGED <<m_loadedTextures, glActiveUnit, glBoundTex, lastCreate, lastFind>>

\* The texture names that are allocated in the GL context: every name
\* glGenTextures has returned, as no call of the source deletes one.
glAllocated == 1..(glNextName - 1)

\* The while loop shared by FindTextureID and FindTextureSlot: the index at
\* which the loop stops with bFound, or NotFound when index reaches
\* m_loadedTextures.
RECURSIVE FindLoop(_, _)
FindLoop(tag, index) ==
    IF index < m_loadedTextures
    THEN IF m_textureIDs[index].tag = tag
         THEN index
         ELSE FindLoop(tag, index + 1)
    ELSE NotFound

FindTextureSlot_LastMatch(tag) ==
    LET hits == {i \in 0..(m_loadedTextures - 1) : m_textureIDs[i].tag = tag}
    IN IF hits = {} THEN NotFound ELSE CHOOSE i \in hits : \A j \in hits : j <= i

FindTextureSlot(tag) == FindLoop(tag, 0)

FindTextureID(tag) ==
    LET index == FindLoop(tag, 0)
    IN IF index = NotFound THEN NotFound ELSE m_textureIDs[index].ID

\* A lookup of tag by both finders.
FindTexture(tag) ==
    /\ lastFind' = [called |-> TRUE, tag |-> tag,
                    slot |-> FindTextureSlot(tag), ID |-> FindTextureID(tag)]
    /\ UNCHANGED <<m_textureIDs, m_loadedTextures, glNextName, glActiveUnit,
                   glBoundTex, lastCreate>>

-----------------------------------------------------------------------------
(* ViewManager: camera input callbacks *)

\* Cursor positions and scroll offsets the window system reports.
CursorXs == {499, 500, 502}
CursorYs == {400, 403}
ScrollOffsets == {-2, -1, 0, 1}

NoMouse == [called |-> FALSE, xOffset |-> 0, yOffset |-> 0]

ViewInit ==
    /\ gLastX = WINDOW_WIDTH \div 2
    /\ gLastY = WINDOW_HEIGHT \div 2
    /\ gFirstMouse = TRUE
    /\ MovementSpeed = InitialMovementSpeed
    /\ mouseFed = NoMouse
    /\ mouseTrace = <<>>
    /\ scrollRun = 0
    /\ bOrthographicProjection = FALSE
    /\ gDeltaTime = 0
    /\ gLastFrame = 0
    /\ Position = <<0, 5 * One, 12 * One>>
    /\ vm_pShaderManager \in {NULL, ShaderManager}
    /\ viewPushed = Unset
    /\ frameLog = <<>>

\* The conversion of an integer-valued double to float: exact within
\* FloatExactRange, to the nearest even integer in the binade above it.
ToFloat(d) ==
    IF -FloatExactRange <= d /\ d <= FloatExactRange
    THEN d
    ELSE IF d % 2 = 0 THEN d
         ELSE IF (d + 1) % 4 = 0 THEN d + 1 ELSE d - 1

\* "if (gFirstMouse) { gLastX = xMousePos; ... }": the reference position the
\* offset is measured from.
SeedLast_NoSeed(first, last, pos) == last

SeedLast(first, last, pos) == IF first THEN ToFloat(pos) ELSE last

Mouse_Position_Callback(xMousePos, yMousePos) ==
    LET seededX == SeedLast(gFirstMouse, gLastX, xMousePos)
        seededY == SeedLast(gFirstMouse, gLastY, yMousePos)
        xOffset == ToFloat(xMousePos - seededX)
        yOffset == ToFloat(seededY - yMousePos)
    IN /\ Len(mouseTrace) < MaxMouseEvents
       /\ gFirstMouse' = FALSE
       /\ gLastX' = ToFloat(xMousePos)
       /\ gLastY' = ToFloat(yMousePos)
       /\ mouseFed' = [called |-> TRUE, xOffset |-> xOffset, yOffset |-> yOffset]
       /\ mouseTrace' = Append(mouseTrace, <<xMousePos, yMousePos>>)
       /\ UNCHANGED <<MovementSpeed, scrollRun, frameVars>>

\* The movement speed Mouse_Scroll_Callback leaves for a scroll of yOffset.
ScrollSpeed_NoFloor(speed, yOffset) ==
    IF yOffset > 0 THEN speed + 2
    ELSE IF yOffset < 0 THEN speed - 2
    ELSE speed

ScrollSpeed(speed, yOffset) ==
    IF yOffset > 0 THEN speed + 2
    ELSE IF yOffset < 0
         THEN IF speed - 2 < 1 THEN 1 ELSE speed - 2
         ELSE speed

Mouse_Scroll_Callback(yOffset) ==
    /\ yOffset > 0 => MovementSpeed < MaxSpeed
    /\ MovementSpeed' = ScrollSpeed(MovementSpeed, yOffset)
    /\ scrollRun' = IF scrollRun = -1 \/ yOffset >= 0 THEN -1
                    ELSE IF scrollRun < ScrollRunLength THEN scrollRun + 1
                    ELSE scrollRun
    /\ UNCHANGED <<gLastX, gLastY, gFirstMouse, mouseFed, mouseTrace, frameVars>>

-----------------------------------------------------------------------------
(* Fixed-point vectors and 4x4 matrices (rows of the mathematical matrix) *)

FxMul(a, b) == (a * b) \div One

Vec3(x, y, z) == <<x * One, y * One, z * One>>

MatEntry(A, B, r, c) ==
    FxMul(A[r][1], B[1][c]) + FxMul(A[r][2], B[2][c])
  + FxMul(A[r][3], B[3][c]) + FxMul(A[r][4], B[4][c])

MatRow(A, B, r) ==
    <<MatEntry(A, B, r, 1), MatEntry(A, B, r, 2), MatEntry(A, B, r, 3),
      MatEntry(A, B, r, 4)>>

MatMul(A, B) == <<MatRow(A, B, 1), MatRow(A, B, 2), MatRow(A, B, 3), MatRow(A, B, 4)>>

\* The matrix applied to the point (p[1], p[2], p[3], 1).
MatPointRow(A, p, r) ==
    FxMul(A[r][1], p[1]) + FxMul(A[r][2], p[2]) + FxMul(A[r][3], p[3]) + A[r][4]

MatPoint(A, p) == <<MatPointRow(A, p, 1), MatPointRow(A, p, 2), MatPointRow(A, p, 3)>>

\* cos and sin of glm::radians(degrees), for the angles the scene uses.
CosDeg(d) ==
    CASE d = 0 -> One
      [] d \in {90, -90, 270} -> 0
      [] d \in {180, -180} -> -One
      [] d \in {1, -1} -> 1000
      [] d \in {10, -10} -> 985
      [] d \in {75, -75} -> 259

SinDeg(d) ==
    CASE d \in {0, 180, -180} -> 0
      [] d = 90 -> One
      [] d \in {-90, 270} -> -One
      [] d = 1 -> 17
      [] d = -1 -> -17
      [] d = 10 -> 174
      [] d = -10 -> -174
      [] d = 75 -> 966
      [] d = -75 -> -966

\* glm::scale(v), glm::translate(v), glm::rotate(angle, axis)
ScaleMat(v) ==
    << <<v[1], 0, 0, 0>>, <<0, v[2], 0, 0>>, <<0, 0, v[3], 0>>, <<0, 0, 0, One>> >>

TranslateMat(v) ==
    << <<One, 0, 0, v[1]>>, <<0, One, 0, v[2]>>, <<0, 0, One, v[3]>>,
       <<0, 0, 0, One>> >>

RotateXMat(d) ==
    << <<One, 0, 0, 0>>, <<0, CosDeg(d), -SinDeg(d), 0>>,
       <<0, SinDeg(d), CosDeg(d), 0>>, <<0, 0, 0, One>> >>

RotateYMat(d) ==
    << <<CosDeg(d), 0, SinDeg(d), 0>>, <<0, One, 0, 0>>,
       <<-SinDeg(d), 0, CosDeg(d), 0>>, <<0, 0, 0, One>> >>

RotateZMat(d) ==
    << <<CosDeg(d), -SinDeg(d), 0, 0>>, <<SinDeg(d), CosDeg(d), 0, 0>>,
       <<0, 0, One, 0>>, <<0, 0, 0, One>> >>

\* modelView = translation * rotationZ * rotationY * rotationX * scale
ModelView_ScaleLast(scaleXYZ, rx, ry, rz, positionXYZ) ==
    MatMul(ScaleMat(scaleXYZ),
      MatMul(RotateXMat(rx),
        MatMul(RotateYMat(ry),
          MatMul(RotateZMat(rz), TranslateMat(positionXYZ)))))

ModelView(scaleXYZ, rx, ry, rz, positionXYZ) ==
    LET scale == ScaleMat(scaleXYZ)
        rotationX == RotateXMat(rx)
        rotationY == RotateYMat(ry)
        rotationZ == RotateZMat(rz)
        translation == TranslateMat(positionXYZ)
        xs == MatMul(rotationX, scale)
        yxs == MatMul(rotationY, xs)
        zyxs == MatMul(rotationZ, yxs)
    IN MatMul(translation, zyxs)

-----------------------------------------------------------------------------
(* Material registry *)

Material(tag, diffuse, specular, shininess) ==
    [tag |-> tag, diffuseColor |-> diffuse, specularColor |-> specular,
     shininess |-> shininess]

\* The six materials DefineObjectMaterials pushes, in order.
SceneMaterials ==
    << Material("metal", <<40400, 400, 0>>, <<50700, 50700, 40600>>, 90000),
       Material("paper", <<200, 200, 300>>, <<0, 0, 0>>, 100),
       Material("glass", <<200, 200, 200>>, <<21000, 16000, 11000>>, 95000),
       Material("plate", <<400, 400, 400>>, <<200, 200, 200>>, 30000),
       Material("backdrop", <<800, 800, 900>>, <<0, 0, 0>>, 2000),
       Material("apple", <<400, 200, 400>>, <<100, 50, 100>>, 550) >>

\* What a default-constructed OBJECT_MATERIAL local may hold: its vectors and
\* its float are not initialised, its tag is the empty string.
UninitMaterials ==
    { Material("", <<0, 0, 0>>, <<0, 0, 0>>, 0),
      Material("", <<-7000, 123000, 1>>, <<9, 9, 9>>, -1) }

\* SetupSceneLights: the uniforms it pushes, in order (lightIntensity is
\* 0.8; setBoolValue takes true as 1).
LightPushes ==
    << <<"bUseLighting", <<1>> >>,
       <<"directionalLight.direction", <<-1000, -1000, -300>> >>,
       <<"directionalLight.ambient",
         <<FxMul(400, 800), FxMul(400, 800), FxMul(350, 800)>> >>,
       <<"directionalLight.diffuse",
         <<FxMul(1000, 800), FxMul(850, 800), FxMul(650, 800)>> >>,
       <<"directionalLight.specular",
         <<FxMul(900, 800), FxMul(800, 800), FxMul(600, 800)>> >>,
       <<"directionalLight.bActive", <<1>> >>,
       <<"pointLights[0].position", <<-4000, 5000, 2000>> >>,
       <<"pointLights[0].ambient", <<150, 150, 150>> >>,
       <<"pointLights[0].diffuse", <<250, 250, 300>> >>,
       <<"pointLights[0].specular", <<100, 100, 100>> >>,
       <<"pointLights[0].bActive", <<1>> >>,
       <<"pointLights[1].position", <<2000, 6000, -3000>> >>,
       <<"pointLights[1].ambient", <<200, 180, 150>> >>,
       <<"pointLights[1].diffuse", <<450, 400, 350>> >>,
       <<"pointLights[1].specular", <<500, 400, 300>> >>,
       <<"pointLights[1].bActive", <<1>> >> >>

DrawUniformNames ==
    {"model", "bUseTexture", "objectColor", "objectTexture", "UVscale",
     "material.diffuseColor", "material.specularColor", "material.shininess"}

UniformNames ==
    DrawUniformNames \cup {LightPushes[i][1] : i \in 1..Len(LightPushes)}

NoMaterialQuery == [called |-> FALSE, tag |-> "", ret |-> FALSE,
                    material |-> Material("", <<0, 0, 0>>, <<0, 0, 0>>, 0)]

ShaderInit ==
    /\ m_objectMaterials = <<>>
    /\ m_pShaderManager \in {NULL, ShaderManager}
    /\ uniforms = [n \in UniformNames |-> Unset]
    /\ lastMaterial = NoMaterialQuery
    /\ lastShading = "none"
    /\ lastXform = <<>>
    /\ nullDerefs = {}
    /\ crashed = FALSE

DefineObjectMaterials ==
    /\ m_objectMaterials' = m_objectMaterials \o SceneMaterials
    /\ UNCHANGED <<m_pShaderManager, uniforms, lastMaterial, lastShading,
                   lastXform, nullDerefs, crashed>>

\* The while loop of FindMaterial: the index (from 0) at which it stops with
\* bFound, or NotFound when index reaches m_objectMaterials.size().
RECURSIVE FindMaterialLoop(_, _)
FindMaterialLoop(tag, index) ==
    IF index < Len(m_objectMaterials)
    THEN IF m_objectMaterials[index + 1].tag = tag
         THEN index
         ELSE FindMaterialLoop(tag, index + 1)
    ELSE NotFound

\* FindMaterial(tag, material): the value returned and what the material
\* passed by reference holds afterwards.
FindMaterial(tag, material) ==
    IF Len(m_objectMaterials) = 0
    THEN [ret |-> FALSE, material |-> material]
    ELSE LET index == FindMaterialLoop(tag, 0) IN
         [ret |-> TRUE,
          material |->
             IF index = NotFound
             THEN material
             ELSE [material EXCEPT
                      !.diffuseColor = m_objectMaterials[index + 1].diffuseColor,
                      !.specularColor = m_objectMaterials[index + 1].specularColor,
                      !.shininess = m_objectMaterials[index + 1].shininess]]

\* A call of FindMaterial with a fresh local as the output.
FindMaterialQuery(tag) ==
    /\ \E local \in UninitMaterials :
          LET r == FindMaterial(tag, local) IN
          lastMaterial' = [called |-> TRUE, tag |-> tag, ret |-> r.ret,
                           material |-> r.material]
    /\ UNCHANGED <<m_objectMaterials, m_pShaderManager, uniforms, lastShading,
                   lastXform, nullDerefs, crashed>>

-----------------------------------------------------------------------------
(* Shader state binder: the Set... methods *)

\* A call through m_pShaderManager when it is NULL, made by method: undefined
\* behaviour, after which the process has died or has carried on with
\* nothing pushed.
NullDereference(method) ==
    /\ nullDerefs' = nullDerefs \cup {method}
    /\ crashed' \in {TRUE, FALSE}
    /\ UNCHANGED uniforms

Push(u, name, value) == [u EXCEPT ![name] = value]

SetTransformations(scaleXYZ, rx, ry, rz, positionXYZ) ==
    /\ IF NULL # m_pShaderManager
       THEN uniforms' = Push(uniforms, "model",
                             ModelView(scaleXYZ, rx, ry, rz, positionXYZ))
       ELSE UNCHANGED uniforms
    /\ lastXform' = <<scaleXYZ, rx, ry, rz, positionXYZ>>
    /\ UNCHANGED <<m_objectMaterials, m_pShaderManager, lastMaterial, lastShading,
                   nullDerefs, crashed>>

\* The uniforms after SetShaderColor's two pushes (setIntValue takes the
\* bool false as the int 0).
ColorPushes_KeepTexture(u, color) == Push(u, "objectColor", color)

ColorPushes(u, color) == Push(Push(u, "bUseTexture", <<0>>), "objectColor", color)

SetShaderColor(color) ==
    /\ IF NULL # m_pShaderManager
       THEN uniforms' = ColorPushes(uniforms, color)
       ELSE UNCHANGED uniforms
    /\ lastShading' = "color"
    /\ UNCHANGED <<m_objectMaterials, m_pShaderManager, lastMaterial, lastXform,
                   nullDerefs, crashed>>

\* The uniforms after SetShaderTexture's two pushes.
TexturePushes(u, textureTag) ==
    Push(Push(u, "bUseTexture", <<1>>), "objectTexture",
         <<FindTextureSlot(textureTag)>>)

SetShaderTexture(textureTag) ==
    /\ IF NULL # m_pShaderManager
       THEN uniforms' = TexturePushes(uniforms, textureTag)
       ELSE UNCHANGED uniforms
    /\ lastShading' = "texture"
    /\ UNCHANGED <<m_objectMaterials, m_pShaderManager, lastMaterial, lastXform,
                   nullDerefs, crashed>>

SetTextureUVScale(u, v) ==
    /\ IF NULL # m_pShaderManager
       THEN uniforms' = Push(uniforms, "UVscale", <<u, v>>)
       ELSE UNCHANGED uniforms
    /\ UNCHANGED <<m_objectMaterials, m_pShaderManager, lastMaterial, lastShading,
                   lastXform, nullDerefs, crashed>>

RECURSIVE PushAll(_, _, _)
PushAll(u, pushes, i) ==
    IF i > Len(pushes) THEN u
    ELSE PushAll(Push(u, pushes[i][1], pushes[i][2]), pushes, i + 1)

\* SetupSceneLights has no test of m_pShaderManager.
SetupSceneLights ==
    /\ IF m_pShaderManager = NULL
       THEN NullDereference("SetupSceneLights")
       ELSE /\ uniforms' = PushAll(uniforms, LightPushes, 1)
            /\ UNCHANGED <<nullDerefs, crashed>>
    /\ UNCHANGED <<m_objectMaterials, m_pShaderManager, lastMaterial, lastShading,
                   lastXform>>

\* The uniforms after SetShaderMaterial's three pushes.
MaterialPushes(u, material) ==
    Push(Push(Push(u, "material.diffuseColor", material.diffuseColor),
              "material.specularColor", material.specularColor),
         "material.shininess", <<material.shininess>>)

\* SetShaderMaterial has no test of m_pShaderManager.
SetShaderMaterial(materialTag) ==
    /\ IF Len(m_objectMaterials) > 0
       THEN \E local \in UninitMaterials :
               LET r == FindMaterial(materialTag, local) IN
               IF r.ret = TRUE
               THEN IF m_pShaderManager = NULL
                    THEN NullDereference("SetShaderMaterial")
                    ELSE /\ uniforms' = MaterialPushes(uniforms, r.material)
                         /\ UNCHANGED <<nullDerefs, crashed>>
               ELSE UNCHANGED <<uniforms, nullDerefs, crashed>>
       ELSE UNCHANGED <<uniforms, nullDerefs, crashed>>
    /\ UNCHANGED <<m_objectMaterials, m_pShaderManager, lastMaterial, lastShading,
                   lastXform>>

-----------------------------------------------------------------------------
(* Scene preparation and rendering: the calls of PrepareScene (with those of
   LoadSceneTextures in place) and of RenderScene, in source order *)

MeshTypes == {"plane", "cylinder", "sphere", "cone", "box", "taperedcylinder",
              "torus"}

PrepareOps ==
    << <<"DefineObjectMaterials">>,
       <<"SetupSceneLights">>,
       <<"LoadMesh", "plane">>,
       <<"LoadMesh", "cylinder">>,
       <<"LoadMesh", "sphere">>,
       <<"LoadMesh", "cone">>,
       <<"LoadMesh", "box">>,
       <<"LoadMesh", "taperedcylinder">>,
       <<"LoadMesh", "plane">>,
       <<"LoadMesh", "torus">>,
       <<"CreateGLTexture", "textures/bookcover.jpg", "bookcover_texture">>,
       <<"CreateGLTexture", "textures/bookside.jpg", "bookside_texture">>,
       <<"CreateGLTexture", "textures/counter.jpg", "counter_texture">>,
       <<"CreateGLTexture", "textures/pages.jpg", "pages_texture">>,
       <<"CreateGLTexture", "textures/wall.jpg", "wall_texture">>,
       <<"CreateGLTexture", "textures/can.jpg", "can_texture">>,
       <<"CreateGLTexture", "textures/canlid.jpg", "canlid_texture">>,
       <<"CreateGLTexture", "textures/apple.jpg", "apple_texture">>,
       <<"CreateGLTexture", "textures/carbonated.jpg", "carbonated_texture">>,
       <<"CreateGLTexture", "textures/foam.jpg", "foam_texture">>,
       <<"BindGLTextures">> >>

Xf(sx, sy, sz, rx, ry, rz, px, py, pz) ==
    <<"SetTransformations", <<sx, sy, sz>>, rx, ry, rz, <<px, py, pz>> >>
Color(a) == <<"SetShaderColor", <<One, One, One, a>> >>
Tex(tag) == <<"SetShaderTexture", tag>>
UV(u, v) == <<"SetTextureUVScale", u, v>>
Mat(tag) == <<"SetShaderMaterial", tag>>
Draw(mesh) == <<"DrawMesh", mesh>>

RenderOps ==
    << \* plane
       Xf(50000, 1000, 20000, 0, 0, 0, 0, -600, 0),
       Tex("counter_texture"), UV(2000, 2000), Tex("plate"), Draw("plane"),
       \* can, main shape
       Xf(1500, 8000, 1500, 0, 0, 0, -3000, 2000, 0),
       Tex("can_texture"), UV(1000, 1000), Tex("glass"), Draw("cylinder"),
       \* can, top lid
       Xf(1450, 1, 1450, 0, 75, 0, -3000, 10000, 0),
       Tex("canlid_texture"), UV(1000, 1000), Tex("glass"), Draw("cylinder"),
       \* cup stem
       Xf(250, 1000, 250, 0, 0, 0, -6000, 3400, 3000),
       Color(300), Mat("glass"), Draw("cylinder"),
       \* cup bottom
       Xf(1300, 1000, 1300, 0, 0, 0, -6000, 2000, 3000),
       Color(400), Mat("glass"), Draw("cylinder"),
       \* top of cup
       Xf(1400, 1500, 1400, 0, 0, 0, -6000, 6300, 3000),
       Color(700), Mat("glass"), Draw("taperedcylinder"),
       \* top middle of cup
       Xf(1400, 500, 1400, 0, 0, 0, -6000, 5800, 3000),
       Color(700), Mat("glass"), Draw("cylinder"),
       \* cup round
       Xf(1400, 1500, 1400, 0, 0, 0, -6000, 5900, 3000),
       Color(700), Mat("glass"), Draw("sphere"),
       \* cone 1
       Xf(1300, 500, 1300, 0, 0, 0, -6000, 3000, 3000),
       Color(300), Mat("glass"), Draw("cone"),
       \* cone 2
       Xf(1000, -1000, 1000, 0, 0, 0, -6000, 5000, 3000),
       Color(300), Mat("glass"), Draw("cone"),
       \* book pages
       Xf(15000, 2000, 10000, 0, 0, 0, -2000, 1000, 2500),
       Tex("pages_texture"), UV(1000, 1000), Draw("box"), Mat("paper"),
       \* book cover
       Xf(10500, 250, 15500, 0, 90, 0, -2000, 2000, 2500),
       Tex("bookcover_texture"), UV(1000, 1000), Mat("paper"), Draw("box"),
       \* book cover bottom
       Xf(10500, 250, 15500, 0, 90, 0, -2000, -250, 2500),
       Tex("bookcover_texture"), UV(1000, 1000), Mat("paper"), Draw("box"),
       \* book spine
       Xf(15500, 250, 2500, 90, 0, 0, -2000, 900, 7750),
       Tex("bookside_texture"), UV(1000, 1000), Mat("paper"), Draw("box"),
       \* back drywall
       Xf(50000, 250, 30000, 90, 0, 0, 0, 20000, -4000),
       Tex("wall_texture"), UV(1000, 1000), Mat("backdrop"), Draw("plane"),
       \* apple
       Xf(3000, 1600, 3000, -1, 90, -10, 1700, 3400, 3000),
       Color(1000), Tex("apple_texture"), Mat("apple"), Draw("sphere") >>

SceneInit ==
    /\ pc = "start"
    /\ ip = 1
    /\ frames = 0
    /\ meshLoads = [m \in MeshTypes |-> 0]
    /\ drawn = <<>>

\* m_basicMeshes->Load...Mesh()
LoadMesh(mesh) ==
    /\ meshLoads' = [meshLoads EXCEPT ![mesh] = @ + 1]
    /\ UNCHANGED drawn

\* m_basicMeshes->Draw...Mesh()
DrawMesh(mesh) ==
    /\ drawn' = Append(drawn, mesh)
    /\ UNCHANGED meshLoads

\* The texture files that failed to load so far in LoadSceneTextures.
LoadFailures ==
    Cardinality({i \in 1..(ip - 1) : PrepareOps[i][1] = "CreateGLTexture"})
        - m_loadedTextures

StartPrepareScene ==
    /\ pc = "start"
    /\ pc' = "PrepareScene"
    /\ UNCHANGED <<ip, frames, meshLoads, drawn, texVars, shaderVars, viewVars>>

PrepareSceneStep ==
    /\ pc = "PrepareScene"
    /\ ~crashed
    /\ UNCHANGED viewVars
    /\ LET op == PrepareOps[ip] IN
       \/ /\ op[1] = "DefineObjectMaterials"
          /\ DefineObjectMaterials
          /\ UNCHANGED <<texVars, frames, meshLoads, drawn, pc>>
          /\ ip' = ip + 1
       \/ /\ op[1] = "SetupSceneLights"
          /\ SetupSceneLights
          /\ UNCHANGED <<texVars, frames, meshLoads, drawn, pc>>
          /\ ip' = ip + 1
       \/ /\ op[1] = "LoadMesh"
          /\ LoadMesh(op[2])
          /\ UNCHANGED <<texVars, shaderVars, frames, pc>>
          /\ ip' = ip + 1
       \/ /\ op[1] = "CreateGLTexture"
          /\ \E ch \in DecodeResults :
                /\ ~ChannelsSupported(ch) => LoadFailures < MaxLoadFailures
                /\ CreateGLTexture(ch, op[3])
          /\ UNCHANGED <<shaderVars, frames, meshLoads, drawn, pc>>
          /\ ip' = ip + 1
       \/ /\ op[1] = "BindGLTextures"
          /\ BindGLTextures
          /\ UNCHANGED <<shaderVars, frames, meshLoads, drawn>>
          /\ ip' = 1
          /\ pc' = "ready"

StartRenderScene ==
    /\ pc = "ready"
    /\ frames < MaxFrames
    /\ pc' = "RenderScene"
    /\ drawn' = <<>>
    /\ UNCHANGED <<ip, frames, meshLoads, texVars, shaderVars, viewVars>>

\* The end of RenderScene after its last call.
RenderAdvance ==
    IF ip < Len(RenderOps)
    THEN ip' = ip + 1 /\ UNCHANGED <<pc, frames>>
    ELSE ip' = 1 /\ pc' = "ready" /\ frames' = frames + 1

RenderSceneStep ==
    /\ pc = "RenderScene"
    /\ ~crashed
    /\ UNCHANGED viewVars
    /\ LET op == RenderOps[ip] IN
       \/ /\ op[1] = "SetTransformations"
          /\ SetTransformations(op[2], op[3], op[4], op[5], op[6])
          /\ UNCHANGED <<texVars, meshLoads, drawn>>
       \/ /\ op[1] = "SetShaderColor"
          /\ SetShaderColor(op[2])
          /\ UNCHANGED <<texVars, meshLoads, drawn>>
       \/ /\ op[1] = "SetShaderTexture"
          /\ SetShaderTexture(op[2])
          /\ UNCHANGED <<texVars, meshLoads, drawn>>
       \/ /\ op[1] = "SetTextureUVScale"
          /\ SetTextureUVScale(op[2], op[3])
          /\ UNCHANGED <<texVars, meshLoads, drawn>>
       \/ /\ op[1] = "SetShaderMaterial"
          /\ SetShaderMaterial(op[2])
          /\ UNCHANGED <<texVars, meshLoads, drawn>>
       \/ /\ op[1] = "DrawMesh"
          /\ DrawMesh(op[2])
          /\ UNCHANGED <<texVars, shaderVars>>
    /\ RenderAdvance

-----------------------------------------------------------------------------
(* Initial state: the state after both managers are constructed *)

Init == TexInit /\ ViewInit /\ ShaderInit /\ SceneInit

-----------------------------------------------------------------------------
(* The texture registry on its own *)

TexOnly == UNCHANGED <<viewVars, shaderVars, sceneVars>>

TexNext ==
    \/ /\ glNextName <= MaxTextureNames
       /\ \E ch \in DecodeResults, tag \in LoadTags : CreateGLTexture(ch, tag)
       /\ TexOnly
    \/ BindGLTextures /\ TexOnly
    \/ (\E tag \in QueryTags : FindTexture(tag)) /\ TexOnly

SpecTex == Init /\ [][TexNext]_vars

-----------------------------------------------------------------------------
(* Claims about the texture registry, checked under SpecTex *)

RegistryUnchanged ==
    /\ m_loadedTextures' = m_loadedTextures
    /\ m_textureIDs' = m_textureIDs

\* C1: CreateGLTexture on an image that decodes with a channel count other
\* than 3 or 4 returns false and registers nothing: the number of registered
\* textures and every (tag, handle) entry are the same after the call.
C1_UnsupportedChannelsRegisterNothing ==
    [][\A ch \in DecodeResults \ {0, 3, 4}, tag \in LoadTags :
          CreateGLTexture(ch, tag) =>
              /\ lastCreate'.ret = FALSE
              /\ RegistryUnchanged]_vars

\* C1 witness: a channel count of 1 or 2 was rejected with textures registered.
C1_Witness ==
    /\ lastCreate.called
    /\ lastCreate.channels \in {1, 2}
    /\ ~lastCreate.ret
    /\ m_loadedTextures >= 2

\* C2 (as claimed): after a successful CreateGLTexture(file, tag), in every
\* prior registry state, FindTextureSlot(tag) and FindTextureID(tag) return
\* the slot and the handle of the texture just loaded.
C2_FindReturnsTextureJustLoaded ==
    (lastCreate.called /\ lastCreate.ret) =>
        /\ FindTextureSlot(lastCreate.tag) = lastCreate.slot
        /\ FindTextureID(lastCreate.tag) = lastCreate.ID

\* C3: BindGLTextures binds the i-th registered texture to unit i for every
\* i below the number of registered textures, and leaves every other unit as
\* it was. Texture names are handed out in increasing order, so registration
\* order is the order of the handles.
C3_BindInRegistrationOrder ==
    [][BindGLTextures =>
          /\ \A u \in Units :
                glBoundTex'[u] = IF u < m_loadedTextures
                                 THEN m_textureIDs[u].ID
                                 ELSE glBoundTex[u]
          /\ \A i, j \in 0..(m_loadedTextures - 1) :
                i < j => glBoundTex'[i] < glBoundTex'[j]
          /\ RegistryUnchanged]_vars

\* C3 witness: three textures are bound to units 0, 1, 2 after a load failed
\* between two registrations.
C3_Witness ==
    /\ m_loadedTextures = 3
    /\ \A i \in 0..2 : glBoundTex[i] = m_textureIDs[i].ID
    /\ glBoundTex[3] = 0
    /\ \E i \in 0..1 : m_textureIDs[i + 1].ID > m_textureIDs[i].ID + 1

Hits(tag) == {i \in 0..(m_loadedTextures - 1) : m_textureIDs[i].tag = tag}

\* C4: FindTextureSlot returns the smallest index whose entry has the tag and
\* FindTextureID the handle stored at that index; both return -1 when no
\* entry has the tag; neither changes the registry.
C4_FirstMatchLookup ==
    [][\A tag \in QueryTags :
          FindTexture(tag) =>
              /\ IF Hits(tag) = {}
                 THEN lastFind'.slot = -1 /\ lastFind'.ID = -1
                 ELSE /\ lastFind'.slot \in Hits(tag)
                      /\ \A i \in Hits(tag) : lastFind'.slot <= i
                      /\ lastFind'.ID = m_textureIDs[lastFind'.slot].ID
              /\ RegistryUnchanged]_vars

\* C4 witness: a lookup returned the first of two entries with the same tag.
C4_Witness ==
    /\ lastFind.called
    /\ lastFind.slot = 0
    /\ lastFind.ID = m_textureIDs[0].ID
    /\ \E j \in 1..(m_loadedTextures - 1) : m_textureIDs[j].tag = lastFind.tag

\* C4 witness: a lookup in a non-empty registry found nothing.
C4_WitnessNotFound ==
    /\ lastFind.called
    /\ lastFind.slot = NotFound
    /\ m_loadedTextures > 0
    /\ Hits(lastFind.tag) = {}

-----------------------------------------------------------------------------
(* The camera input callbacks on their own *)

ViewOnly == UNCHANGED <<texVars, shaderVars, sceneVars>>

ViewNext ==
    \/ (\E x \in CursorXs, y \in CursorYs : Mouse_Position_Callback(x, y))
          /\ ViewOnly
    \/ (\E yOffset \in ScrollOffsets : Mouse_Scroll_Callback(yOffset)) /\ ViewOnly

SpecView == Init /\ [][ViewNext]_vars

-----------------------------------------------------------------------------
(* Claims about the camera input callbacks, checked under SpecView *)

\* C6: after any sequence of scroll events from the initial speed 5 the
\* movement speed is never below 1, and a run of 100 negative scroll events
\* from the start leaves it at exactly 1.
C6_SpeedNeverBelowFloor ==
    /\ MovementSpeed >= 1
    /\ scrollRun = ScrollRunLength => MovementSpeed = 1

\* C6 witness: one hundred negative scroll events in a row have been applied.
C6_Witness == scrollRun = ScrollRunLength /\ MovementSpeed = 1

C7_WitnessLater ==
    /\ Len(mouseTrace) = 3
    /\ mouseTrace[2] = <<499, 403>>
    /\ mouseTrace[3] = <<502, 400>>
    /\ mouseFed = [called |-> TRUE, xOffset |-> 3, yOffset |-> 3]

-----------------------------------------------------------------------------
(* The material registry and the shader setters on their own *)

ShaderColors == {<<One, One, One, 300>>, <<500, 0, 0, One>>}
ShaderUVScales == {<<One, One>>, <<2 * One, 2 * One>>}
MaterialTags == {"glass", "paper", "wood"}

ShaderOnly == ~crashed /\ UNCHANGED <<texVars, viewVars, sceneVars>>

ShaderNext ==
    \/ /\ Len(m_objectMaterials) < MaxMaterialRuns * Len(SceneMaterials)
       /\ DefineObjectMaterials
       /\ ShaderOnly
    \/ (\E tag \in MaterialTags : FindMaterialQuery(tag)) /\ ShaderOnly
    \/ /\ ~crashed
       /\ glNextName <= MaxTextureNames
       /\ CreateGLTexture(3, "counter_texture")
       /\ UNCHANGED <<shaderVars, viewVars, sceneVars>>
    \/ (\E color \in ShaderColors : SetShaderColor(color)) /\ ShaderOnly
    \/ (\E tag \in {"counter_texture", "plate"} : SetShaderTexture(tag))
          /\ ShaderOnly
    \/ (\E uv \in ShaderUVScales : SetTextureUVScale(uv[1], uv[2])) /\ ShaderOnly
    \/ (\E tag \in MaterialTags : SetShaderMaterial(tag)) /\ ShaderOnly
    \/ /\ SetTransformations(Vec3(1, 1, 1), 0, 90, 0, Vec3(-2, 2, 0))
       /\ ShaderOnly

SpecShader == Init /\ [][ShaderNext]_vars

\* Some entry of the material registry has the tag.
HasMaterial(tag) ==
    \E i \in 1..Len(m_objectMaterials) : m_objectMaterials[i].tag = tag

FirstMaterial(tag) ==
    m_objectMaterials[CHOOSE i \in 1..Len(m_objectMaterials) :
        /\ m_objectMaterials[i].tag = tag
        /\ \A j \in 1..(i - 1) : m_objectMaterials[j].tag # tag]

\* C5 (as claimed): FindMaterial returns not-found whenever no entry of the
\* material registry has the tag, in an empty and in a non-empty registry; it
\* returns found only when an entry matches, and then the output holds the
\* first matching entry's diffuse, specular and shininess values.
C5_FindMaterialNotFoundWithoutMatch ==
    \A tag \in MaterialTags, local \in UninitMaterials :
        LET r == FindMaterial(tag, local) IN
        /\ r.ret = HasMaterial(tag)
        /\ r.ret =>
              /\ r.material.diffuseColor = FirstMaterial(tag).diffuseColor
              /\ r.material.specularColor = FirstMaterial(tag).specularColor
              /\ r.material.shininess = FirstMaterial(tag).shininess

\* C10: with a non-null shader manager the texture-enable flag is decided by
\* the last SetShaderColor or SetShaderTexture call: 0 after SetShaderColor,
\* 1 after SetShaderTexture, never pushed before either; the other setters
\* never change it.
C10_LastShadingCallDecidesFlag ==
    m_pShaderManager # NULL =>
        uniforms["bUseTexture"] = CASE lastShading = "color" -> <<0>>
                                    [] lastShading = "texture" -> <<1>>
                                    [] lastShading = "none" -> Unset

\* C10 witness: SetShaderColor ran after SetShaderTexture, and the UV scale,
\* material and model pushes that followed left the flag at 0.
C10_Witness ==
    /\ m_pShaderManager # NULL
    /\ lastShading = "color"
    /\ uniforms["bUseTexture"] = <<0>>
    /\ uniforms["objectTexture"] # Unset
    /\ uniforms["UVscale"] # Unset
    /\ uniforms["material.shininess"] # Unset
    /\ uniforms["model"] # Unset

\* C10 witness: SetShaderTexture ran after SetShaderColor.
C10_WitnessTexture ==
    /\ m_pShaderManager # NULL
    /\ lastShading = "texture"
    /\ uniforms["bUseTexture"] = <<1>>
    /\ uniforms["objectColor"] # Unset

-----------------------------------------------------------------------------
(* SetTransformations on its own *)

XformScales == {Vec3(2, 1, 1), Vec3(2, 3, -1)}
XformAngles == {0, 90, 180}
XformPositions == {Vec3(5, 0, 0), Vec3(-2, 1, 7)}
XformPoints == {Vec3(1, 1, 1), Vec3(1, 2, 3), Vec3(0, -1, 0)}

XformNext ==
    /\ m_pShaderManager # NULL
    /\ \E S \in XformScales, rx, ry, rz \in XformAngles, T \in XformPositions :
          SetTransformations(S, rx, ry, rz, T)
    /\ UNCHANGED <<texVars, viewVars, sceneVars>>

SpecXform == Init /\ [][XformNext]_vars

\* A point scaled, rotated about one axis, translated: on the coordinates.
ScalePoint(v, p) == <<FxMul(v[1], p[1]), FxMul(v[2], p[2]), FxMul(v[3], p[3])>>
RotXPoint(d, p) ==
    <<p[1], FxMul(CosDeg(d), p[2]) - FxMul(SinDeg(d), p[3]),
            FxMul(SinDeg(d), p[2]) + FxMul(CosDeg(d), p[3])>>
RotYPoint(d, p) ==
    <<FxMul(CosDeg(d), p[1]) + FxMul(SinDeg(d), p[3]), p[2],
      FxMul(CosDeg(d), p[3]) - FxMul(SinDeg(d), p[1])>>
RotZPoint(d, p) ==
    <<FxMul(CosDeg(d), p[1]) - FxMul(SinDeg(d), p[2]),
      FxMul(SinDeg(d), p[1]) + FxMul(CosDeg(d), p[2]), p[3]>>
TranslatePoint(v, p) == <<p[1] + v[1], p[2] + v[2], p[3] + v[3]>>

\* C9: the model matrix SetTransformations pushes maps a point as: scale it,
\* rotate it about X, then about Y, then about Z, then translate it; so
\* (1,1,1) with S = (2,1,1), no rotation and T = (5,0,0) goes to (7,1,1).
C9_ModelMatrixOrder ==
    (lastXform # <<>> /\ m_pShaderManager # NULL) =>
        LET S == lastXform[1]
            rx == lastXform[2]
            ry == lastXform[3]
            rz == lastXform[4]
            T == lastXform[5]
        IN /\ \A p \in XformPoints :
                 MatPoint(uniforms["model"], p) =
                    TranslatePoint(T, RotZPoint(rz, RotYPoint(ry,
                        RotXPoint(rx, ScalePoint(S, p)))))
           /\ lastXform = <<Vec3(2, 1, 1), 0, 0, 0, Vec3(5, 0, 0)>> =>
                 MatPoint(uniforms["model"], Vec3(1, 1, 1)) = Vec3(7, 1, 1)

\* C9 witness: the matrix pushed for S = (2,3,-1), rotations 90, 90, 90 and
\* T = (-2,1,7), which sends (1,2,3) to (-5,7,5).
C9_Witness ==
    /\ lastXform = <<Vec3(2, 3, -1), 90, 90, 90, Vec3(-2, 1, 7)>>
    /\ MatPoint(uniforms["model"], Vec3(1, 2, 3)) = Vec3(-5, 7, 5)

\* C9 witness: the example of the claim, (1,1,1) sent to (7,1,1).
C9_WitnessExample ==
    /\ lastXform = <<Vec3(2, 1, 1), 0, 0, 0, Vec3(5, 0, 0)>>
    /\ MatPoint(uniforms["model"], Vec3(1, 1, 1)) = Vec3(7, 1, 1)

-----------------------------------------------------------------------------
(* One PrepareScene, then RenderScene frame after frame *)

SceneNext ==
    \/ StartPrepareScene
    \/ PrepareSceneStep
    \/ StartRenderScene
    \/ RenderSceneStep

SpecScene == Init /\ [][SceneNext]_vars

\* C8 (as claimed): with a null shader manager, RenderScene on a prepared
\* scene with a non-empty material registry completes without error and
\* pushes nothing: no Set... method calls through the null pointer.
C8_NullBinderRenderPushesNothing ==
    (m_pShaderManager = NULL /\ Len(m_objectMaterials) > 0) =>
        /\ "SetShaderMaterial" \notin nullDerefs
        /\ pc = "RenderScene" => ~crashed
        /\ \A n \in UniformNames : uniforms[n] = Unset

-----------------------------------------------------------------------------
(* Claims about PrepareScene and RenderScene, checked under SpecScene *)

\* C11 (as claimed): during one PrepareScene no mesh type is requested from
\* the mesh collaborator twice, and once PrepareScene has returned each of
\* the seven mesh types of the scene has been requested exactly once.
C11_EachMeshLoadedOnce ==
    /\ \A mesh \in MeshTypes : meshLoads[mesh] <= 1
    /\ pc \in {"ready", "RenderScene"} =>
          \A mesh \in MeshTypes : meshLoads[mesh] = 1

\* C16 (as claimed): in RenderScene the call issued right after a mesh draw
\* call is the next directive's SetTransformations (or the frame ends): no
\* shading, UV-scale or material push follows a draw call.
C16_DrawEndsDirective ==
    [][(/\ pc = "RenderScene"
        /\ ip > 1
        /\ RenderOps[ip - 1][1] = "DrawMesh"
        /\ Len(drawn) > 0
        /\ RenderSceneStep)
          => RenderOps[ip][1] = "SetTransformations"]_vars

\* Every registered texture is bound to the texture unit of its index.
TexturesBound ==
    \A i \in 0..(m_loadedTextures - 1) : glBoundTex[i] = m_textureIDs[i].ID

SceneTextureTags ==
    {PrepareOps[i][3] : i \in {j \in 1..Len(PrepareOps) :
                                  PrepareOps[j][1] = "CreateGLTexture"}}

\* C18: in a run of one PrepareScene and then RenderScene calls, the one
\* BindGLTextures call is issued after every CreateGLTexture call, ends
\* PrepareScene and precedes every draw call; from then on every registered
\* texture is bound to the unit of its index, and no step of any frame
\* changes the registry or the bindings, so FindTextureSlot maps every tag to
\* the same slot in every frame.
C18_LoadsThenOneBindThenFrames ==
    /\ [](pc \in {"ready", "RenderScene"} =>
             /\ TexturesBound
             /\ lastCreate.called
             /\ m_loadedTextures <= Cardinality(SceneTextureTags))
    /\ [][(pc = "PrepareScene" /\ PrepareSceneStep) =>
             IF PrepareOps[ip][1] = "BindGLTextures"
             THEN /\ pc' = "ready"
                  /\ frames = 0 /\ drawn = <<>>
                  /\ \A i \in 1..Len(PrepareOps) :
                        PrepareOps[i][1] = "CreateGLTexture" => i < ip
             ELSE /\ pc' = "PrepareScene"
                  /\ UNCHANGED glActiveUnit
                  /\ \A u \in Units \ {glActiveUnit} :
                        glBoundTex'[u] = glBoundTex[u]]_vars
    /\ [][(pc \in {"ready", "RenderScene"}) =>
             (/\ UNCHANGED <<m_textureIDs, m_loadedTextures, glNextName,
                             glActiveUnit, glBoundTex, lastCreate>>
              /\ \A tag \in SceneTextureTags \cup {"plate", "glass"} :
                    (FindTextureSlot(tag))' = FindTextureSlot(tag))]_vars

\* C18 witness: two frames were rendered after a PrepareScene in which one
\* texture file failed to load; the nine registered textures are bound to
\* units 0..8 and the last frame drew its sixteen meshes.
C18_Witness ==
    /\ pc = "ready"
    /\ frames = 2
    /\ m_loadedTextures = 9
    /\ TexturesBound
    /\ glBoundTex[8] # 0
    /\ Len(drawn) = 16
    /\ uniforms["bUseTexture"] = <<1>>

-----------------------------------------------------------------------------
(* Claims about SetShaderTexture, checked under SpecShader *)

\* C17 (as claimed): SetShaderTexture with a tag that no entry of the texture
\* registry has leaves the shader's texture-enable flag and sampler slot as
\* they were before the call, and never pushes the not-found value -1 as the
\* sampler slot.
C17_UnknownTagKeepsShadingState ==
    [][\A tag \in {"counter_texture", "plate"} :
          (FindTextureSlot(tag) = NotFound /\ SetShaderTexture(tag)) =>
              /\ uniforms'["bUseTexture"] = uniforms["bUseTexture"]
              /\ uniforms'["objectTexture"] = uniforms["objectTexture"]
              /\ uniforms'["objectTexture"] # <<NotFound>>]_vars

-----------------------------------------------------------------------------
(* The texture registry filled to its capacity *)

CapacityNext ==
    \/ /\ glNextName <= MaxCapacityNames
       /\ \E ch \in {3, 4} : CreateGLTexture(ch, "can_texture")
       /\ TexOnly
    \/ BindGLTextures /\ TexOnly

SpecCapacity == Init /\ [][CapacityNext]_vars

\* C12 (as claimed): CreateGLTexture of a decodable image with 3 or 4
\* channels, called when the registry already holds TextureCapacity (16)
\* textures, returns false and leaves the registry's entries and its count
\* unchanged.
C12_LoadAtCapacityIsReportedFailure ==
    [][\A ch \in {3, 4} :
          (m_loadedTextures = TextureCapacity
             /\ CreateGLTexture(ch, "can_texture")) =>
              /\ lastCreate'.ret = FALSE
              /\ RegistryUnchanged]_vars

-----------------------------------------------------------------------------
(* The texture registry with DestroyGLTextures *)

ReleaseNext ==
    \/ TexNext
    \/ /\ glNextName + m_loadedTextures <= MaxTextureNames + 1
       /\ DestroyGLTextures
       /\ TexOnly

SpecRelease == Init /\ [][ReleaseNext]_vars

\* C13 (as claimed): DestroyGLTextures allocates no new texture handle, and
\* after it none of the handles the registry held for its registered textures
\* is still allocated.
C13_ReleaseAllFreesRegisteredTextures ==
    [][(m_loadedTextures > 0 /\ DestroyGLTextures) =>
          /\ glNextName' = glNextName
          /\ \A i \in 0..(m_loadedTextures - 1) :
                m_textureIDs[i].ID \notin glAllocated']_vars

-----------------------------------------------------------------------------
(* ViewManager: ProcessKeyboardEvents and PrepareSceneView. Times are in
   thousandths of a second. The camera class (camera.h) is not among the
   sources: Camera::ProcessKeyboard(direction, amount) is taken to displace
   Position by amount along the camera axis of the direction, and
   Camera::GetViewMatrix to be the look-at matrix from Position along Front,
   with the axes the ViewManager constructor leaves the camera with. *)

\* Bound: the number of PrepareSceneView calls in a checked run.
MaxViewFrames == 3

\* The keys glfwGetKey reports as pressed during a frame, and the time
\* glfwGetTime returns after the previous frame's.
KeySets == {{}, {"W"}, {"D", "Q"}, {"P"}, {"O"}, {"S", "O"}, {"P", "O"}}
ClockSteps == {16, 500}

FxDiv(a, b) == (a * One) \div b

\* g_pCamera->Front as the constructor sets it, and the camera's Right and Up.
Front == <<0, -500, -2 * One>>
Right == <<One, 0, 0>>
Up == <<0, One, 0>>

\* The camera axis of a movement direction.
Axis(direction) ==
    CASE direction = "FORWARD" -> Front
      [] direction = "BACKWARD" -> <<-Front[1], -Front[2], -Front[3]>>
      [] direction = "LEFT" -> <<-Right[1], -Right[2], -Right[3]>>
      [] direction = "RIGHT" -> Right
      [] direction = "UP" -> Up
      [] direction = "DOWN" -> <<-Up[1], -Up[2], -Up[3]>>

\* g_pCamera->ProcessKeyboard(direction, amount)
ProcessKeyboard(position, direction, amount) ==
    LET a == Axis(direction)
    IN <<position[1] + FxMul(a[1], amount),
         position[2] + FxMul(a[2], amount),
         position[3] + FxMul(a[3], amount)>>

\* "if (glfwGetKey(m_pWindow, key) == GLFW_PRESS)
\*      g_pCamera->ProcessKeyboard(direction, gDeltaTime * MovementSpeed)"
KeyMove(position, keys, key, direction, deltaTime, speed) ==
    IF key \in keys
    THEN ProcessKeyboard(position, direction, deltaTime * speed)
    ELSE position

\* The six movement tests of ProcessKeyboardEvents, in source order: the
\* camera position they leave.
MoveKeys_StaleDeltaTime(keys, position, deltaTime, speed) ==
    LET w == KeyMove(position, keys, "W", "FORWARD", gDeltaTime, speed)
        s == KeyMove(w, keys, "S", "BACKWARD", gDeltaTime, speed)
        a == KeyMove(s, keys, "A", "LEFT", gDeltaTime, speed)
        d == KeyMove(a, keys, "D", "RIGHT", gDeltaTime, speed)
        q == KeyMove(d, keys, "Q", "UP", gDeltaTime, speed)
    IN KeyMove(q, keys, "E", "DOWN", gDeltaTime, speed)

MoveKeys(keys, position, deltaTime, speed) ==
    LET w == KeyMove(position, keys, "W", "FORWARD", deltaTime, speed)
        s == KeyMove(w, keys, "S", "BACKWARD", deltaTime, speed)
        a == KeyMove(s, keys, "A", "LEFT", deltaTime, speed)
        d == KeyMove(a, keys, "D", "RIGHT", deltaTime, speed)
        q == KeyMove(d, keys, "Q", "UP", deltaTime, speed)
    IN KeyMove(q, keys, "E", "DOWN", deltaTime, speed)

\* The two projection tests of ProcessKeyboardEvents, in source order: the
\* value they leave in bOrthographicProjection.
ProjectionKeys_OFlips(keys, ortho) ==
    LET p == IF "P" \in keys THEN FALSE ELSE ortho
    IN IF "O" \in keys THEN ~p ELSE p

ProjectionKeys(keys, ortho) ==
    LET p == IF "P" \in keys THEN FALSE ELSE ortho
    IN IF "O" \in keys THEN TRUE ELSE p

\* ProcessKeyboardEvents with the keys pressed (the escape key, which only
\* asks the window to close, is not among them).
ProcessKeyboardEvents(keys, position, ortho, deltaTime, speed) ==
    [Position |-> MoveKeys(keys, position, deltaTime, speed),
     bOrthographicProjection |-> ProjectionKeys(keys, ortho)]

\* g_pCamera->GetViewMatrix(): the look-at matrix from position along Front
\* with up vector Up. Its rows are the camera's side axis, its up axis
\* (side x forward) and the reversed forward axis (Front normalised), each
\* with minus its product with the position in the fourth column.
ViewSide == <<One, 0, 0>>
ViewUp == <<0, 970, -243>>
ViewBack == <<0, 243, 970>>

Dot3(a, b) == FxMul(a[1], b[1]) + FxMul(a[2], b[2]) + FxMul(a[3], b[3])

GetViewMatrix(position) ==
    << <<ViewSide[1], ViewSide[2], ViewSide[3], -Dot3(ViewSide, position)>>,
       <<ViewUp[1], ViewUp[2], ViewUp[3], -Dot3(ViewUp, position)>>,
       <<ViewBack[1], ViewBack[2], ViewBack[3], -Dot3(ViewBack, position)>>,
       <<0, 0, 0, One>> >>

\* glm::ortho(left, right, bottom, top, zNear, zFar)
Ortho(left, right, bottom, top, zNear, zFar) ==
    << <<FxDiv(2 * One, right - left), 0, 0,
         -FxDiv(right + left, right - left)>>,
       <<0, FxDiv(2 * One, top - bottom), 0,
         -FxDiv(top + bottom, top - bottom)>>,
       <<0, 0, -FxDiv(2 * One, zFar - zNear),
         -FxDiv(zFar + zNear, zFar - zNear)>>,
       <<0, 0, 0, One>> >>

\* tan(fovy / 2) for the camera's Zoom of 80 degrees.
Zoom == 80
TanHalfDeg(fovy) == CASE fovy = 80 -> 839

\* glm::perspective(glm::radians(fovy), aspect, zNear, zFar)
Perspective(fovy, aspect, zNear, zFar) ==
    << <<FxDiv(One, FxMul(aspect, TanHalfDeg(fovy))), 0, 0, 0>>,
       <<0, FxDiv(One, TanHalfDeg(fovy)), 0, 0>>,
       <<0, 0, -FxDiv(zFar + zNear, zFar - zNear),
         -FxDiv(FxMul(2 * zFar, zNear), zFar - zNear)>>,
       <<0, 0, -One, 0>> >>

\* The projection PrepareSceneView builds for a value of the flag.
BuildProjection(ortho) ==
    IF ortho
    THEN Ortho(-10 * One, 10 * One, -10 * One, 10 * One, 100, 100 * One)
    ELSE Perspective(Zoom, FxDiv(WINDOW_WIDTH * One, WINDOW_HEIGHT * One),
                     100, 100 * One)

\* PrepareSceneView() in the frame in which glfwGetTime returns currentTime
\* and the keys of the set keys are pressed.
PrepareSceneView(currentTime, keys) ==
    LET currentFrame == ToFloat(currentTime)
        deltaTime == ToFloat(currentFrame - gLastFrame)
        k == ProcessKeyboardEvents(keys, Position, bOrthographicProjection,
                                   deltaTime, MovementSpeed)
        view == GetViewMatrix(k.Position)
        projection == BuildProjection(k.bOrthographicProjection)
    IN /\ Len(frameLog) < MaxViewFrames
       /\ gDeltaTime' = deltaTime
       /\ gLastFrame' = currentFrame
       /\ Position' = k.Position
       /\ bOrthographicProjection' = k.bOrthographicProjection
       /\ viewPushed' = IF vm_pShaderManager # NULL
                        THEN [view |-> view, projection |-> projection,
                              viewPosition |-> k.Position]
                        ELSE viewPushed
       /\ frameLog' = Append(frameLog,
                             [keys |-> keys, time |-> currentTime,
                              from |-> Position, speed |-> MovementSpeed,
                              projection |-> projection])
       /\ UNCHANGED <<gLastX, gLastY, gFirstMouse, MovementSpeed, mouseFed,
                      mouseTrace, scrollRun, vm_pShaderManager>>

-----------------------------------------------------------------------------
(* The view manager frame by frame *)

FrameNext ==
    /\ \E step \in ClockSteps, keys \in KeySets :
          PrepareSceneView(gLastFrame + step, keys)
    /\ ViewOnly

SpecFrame == Init /\ [][FrameNext]_vars

-----------------------------------------------------------------------------
(* Claims about the view manager's frames, checked under SpecFrame *)

ToggleKeys == {"P", "O"}

\* The toggle keys that were down in the n-th PrepareSceneView call.
TogglesDown(n) == frameLog[n].keys \cap ToggleKeys

\* No frame so far had both toggle keys down.
AtMostOneToggleDown ==
    \A i \in 1..Len(frameLog) : Cardinality(TogglesDown(i)) <= 1

\* The toggle key most recently seen down in the first n frames.
RECURSIVE LastToggle(_)
LastToggle(n) ==
    IF n = 0 THEN "none"
    ELSE IF TogglesDown(n) # {} THEN CHOOSE key \in TogglesDown(n) : TRUE
         ELSE LastToggle(n - 1)

\* A projection matrix without a perspective divide: its last row is 0 0 0 1.
IsOrthographic(projection) == projection[4] = <<0, 0, 0, One>>

\* C14: the projection flag starts as perspective; after any frames in each
\* of which at most one toggle key is down, the projection PrepareSceneView
\* builds (and pushes) is orthographic exactly when the toggle key most
\* recently seen down is O; a frame with neither key down, or with the same
\* key down as the frame before, builds the same kind of projection as the
\* frame before.
C14_ProjectionFollowsLastToggleKey ==
    LET n == Len(frameLog) IN
    /\ n = 0 => ~bOrthographicProjection
    /\ (n > 0 /\ AtMostOneToggleDown) =>
          /\ IsOrthographic(frameLog[n].projection) <=> (LastToggle(n) = "O")
          /\ bOrthographicProjection <=> (LastToggle(n) = "O")
          /\ vm_pShaderManager # NULL =>
                viewPushed.projection = frameLog[n].projection
          /\ (n > 1 /\ (TogglesDown(n) = {}
                          \/ TogglesDown(n) = TogglesDown(n - 1))) =>
                (IsOrthographic(frameLog[n].projection)
                    <=> IsOrthographic(frameLog[n - 1].projection))

\* C14 witness: O was down in two consecutive frames and no toggle key in the
\* third, whose pushed projection is orthographic.
C14_Witness ==
    /\ Len(frameLog) = 3
    /\ frameLog[1].keys = {"O"}
    /\ frameLog[2].keys = {"S", "O"}
    /\ frameLog[3].keys = {"W"}
    /\ vm_pShaderManager # NULL
    /\ IsOrthographic(viewPushed.projection)

\* C14 witness: P was down after O, and the pushed projection is a
\* perspective one again.
C14_WitnessBack ==
    /\ Len(frameLog) = 3
    /\ frameLog[1].keys = {"O"}
    /\ frameLog[2].keys = {"P"}
    /\ frameLog[3].keys = {}
    /\ vm_pShaderManager # NULL
    /\ viewPushed.projection[4] = <<0, 0, -One, 0>>

\* The displacement of the camera for the keys down and the amount
\* deltaTime * MovementSpeed: W and S along Front = (0, -0.5, -2), D and A
\* along x, Q and E along y.
ExpectedDisplacement(keys, amount) ==
    LET on(key) == IF key \in keys THEN 1 ELSE 0
        forward == on("W") - on("S")
    IN <<(on("D") - on("A")) * amount,
         (on("Q") - on("E")) * amount - forward * (amount \div 2),
         -(forward * 2 * amount)>>

\* C15: after every PrepareSceneView call, gDeltaTime is the call's clock
\* reading minus the previous call's and gLastFrame is the call's reading;
\* the camera has moved once, by that deltaTime times the movement speed,
\* for the keys down in the call; the projection is the one for the flag as
\* the call's keys left it; and with a shader manager the pushed view matrix
\* and camera position are those of the camera after the move (the view
\* matrix takes the new position to the origin).
C15_FrameStepsInOrder ==
    LET n == Len(frameLog) IN
    n > 0 =>
        LET e == frameLog[n]
            previous == IF n = 1 THEN 0 ELSE frameLog[n - 1].time
            move == ExpectedDisplacement(e.keys, (e.time - previous) * e.speed)
        IN /\ gDeltaTime = e.time - previous
           /\ gLastFrame = e.time
           /\ Position = <<e.from[1] + move[1], e.from[2] + move[2],
                           e.from[3] + move[3]>>
           /\ e.projection = BuildProjection(bOrthographicProjection)
           /\ IF vm_pShaderManager # NULL
              THEN /\ viewPushed.viewPosition = Position
                   /\ MatPoint(viewPushed.view, Position) = <<0, 0, 0>>
                   /\ viewPushed.projection = e.projection
              ELSE viewPushed = Unset

\* C15 witness: in the third frame, 0.5 s after a frame of 0.016 s, W was
\* down: the camera moved by 0.5 * 5 along Front from where the second frame
\* left it and the pushed camera position is the new one.
C15_Witness ==
    /\ Len(frameLog) = 3
    /\ frameLog[2].keys = {"D", "Q"}
    /\ frameLog[3].keys = {"W"}
    /\ frameLog[3].time - frameLog[2].time = 500
    /\ gDeltaTime = 500
    /\ frameLog[2].time - frameLog[1].time = 16
    /\ vm_pShaderManager # NULL
    /\ viewPushed.viewPosition[3] = frameLog[3].from[3] - 5 * One
    /\ viewPushed.viewPosition = Position

=============================================================================
